---- MODULE Spec2Model ----
(***************************************************************************)
(* Model of Motors/src/Motors.cpp: the ELMO motor controller node.         *)
(*                                                                         *)
(* Threads: main (startup, then the watchdog loop; the motion callback     *)
(* runs inside callAvailable on this thread), two receiverControl threads  *)
(* (one per motor channel) and one encoderControl thread.                  *)
(*                                                                         *)
(* Numbers: a double is a fixed-point integer counting 1/Unit; a wheel     *)
(* velocity is the numerator of a fraction over VelDen.  Time is a count   *)
(* of ticks; WATCHDOG_TIMEOUT is in ticks.                                 *)
(***************************************************************************)
EXTENDS Integers, Sequences, FiniteSets, TLC

(***************************************************************************)
(* Bounds of the model.                                                    *)
(***************************************************************************)
\* subdivisions of 1.0 that a command value can take (fixed point)
Unit == 2
\* largest |angular| that KinSpec draws, in 1/Unit
MaxAng == 2
\* messages the subscription queue holds in the model (1000 in the code)
MaxQueue == 1
\* ticks that may elapse, per command, while main is outside callAvailable
MaxBusy == 1
\* messages that may be queued for main at once in BurstSpec
MaxBurst == 2

(***************************************************************************)
(* Constants of Motors.h (the header is not part of the sources at hand).  *)
(***************************************************************************)
NUMBER_OF_MOTORS == 2
RIGHT_MOTOR_CHANNEL == 0
LEFT_MOTOR_CHANNEL == 1
WATCHDOG_TIMEOUT == 2
TOPSPEED == 2
ENCODER_RESOLUTION == 4
GEARRATIO == 3
WHEEL_RADIUS == 1
ROBOT_RADIUS == 2
LEFT_MOTOR_WARP == 1
RIGHT_MOTOR_WARP == -1
\* M_PI as a fraction
PiNum == 22
PiDen == 7

Channels == 0 .. (NUMBER_OF_MOTORS - 1)

\* what a motorController call can return; the code tests "!= 1"
RetCodes == {0, 1}

\* which abs() the unqualified call on line 171 resolves to in a build:
\* ::abs(int) of <stdlib.h> (the double is converted to int first) or the
\* double overload of <cmath>
AbsOverloads == {"int", "double"}

\* what strstr finds in the 20 bytes a readSerial call left in buf
Markers == {"none", "a?", ":?", "both"}

\* the commands the transport publishes in the model: (1.0, 0.0) and a
\* linear just above TOPSPEED with a turn
Cmds == { <<Unit, 0>>, <<TOPSPEED * Unit + 1, Unit>> }

\* the (linear, angular) pairs that KinSpec draws
MaxLin == (TOPSPEED + 1) * Unit + 1
KinInputs == (-MaxLin .. MaxLin) \X (-MaxAng .. MaxAng)

VARIABLES
    g_watchdog_tripped,     \* line 35
    g_motors_enabled,       \* line 36
    g_linear_velocity,      \* line 37
    g_angular_velocity,     \* line 38
    pc,                     \* where main is
    i,                      \* loop index of initMotors / killMotors
    step,                   \* next call of the loop body
    success,                \* the local of initMotors / killMotors / setVelocity
    opLog,                  \* motorController calls of the running function
    nFailed,                \* how many of them returned other than 1
    firstFailed,            \* the first of them that did (0: none)
    queue,                  \* messages waiting in the global callback queue
    rosok,                  \* ros::ok()
    monPc,                  \* where each receiverControl thread is
    encPc,                  \* where the encoderControl thread is
    abs_overload,           \* the abs() this build calls
    waited,                 \* ticks since callAvailable was entered
    sinceCmd,               \* ticks since the last callback ran (saturating)
    busy,                   \* of those, ticks spent outside callAvailable
    cmdSeen,                \* a callback has run
    reinit,                 \* initMotors in this iteration: none / ok / failed
    timeouts,               \* timed-out iterations in a row (up to 2)
    faultPending,           \* a marker was seen and killMotors has not run since
    faultUnseen,            \* a marker was seen and main has not read the flag since
    sincePub,               \* ticks since the last publish, or since startup
    quiet,                  \* so far no marker was seen and no gap reached the timeout
    batch,                  \* BurstSpec: the messages the last callAvailable delivered
    chanOn                  \* per channel: initialised and switched on, not stopped since

vars == << g_watchdog_tripped, g_motors_enabled, g_linear_velocity,
           g_angular_velocity, pc, i, step, success, opLog, nFailed,
           firstFailed, queue, rosok, monPc, encPc, abs_overload, waited, sinceCmd, busy,
           cmdSeen, reinit, timeouts, faultPending, faultUnseen, sincePub,
           quiet, batch, chanOn >>

globals == << g_watchdog_tripped, g_motors_enabled, g_linear_velocity,
              g_angular_velocity >>
calls   == << opLog, nFailed, firstFailed >>
proc    == << i, step, success, calls >>
threads == << monPc, encPc >>
clocks  == << waited, sinceCmd, busy >>
ghosts  == << cmdSeen, reinit, timeouts, faultPending >>
watch   == << faultUnseen, sincePub, quiet >>
hw      == << chanOn >>

SinceCap == WATCHDOG_TIMEOUT + MaxBusy + 1

Abs(x) == IF x < 0 THEN -x ELSE x

(***************************************************************************)
(* setVelocity's arithmetic, lines 171-186.                                *)
(***************************************************************************)
\* line 181: MPS2TPS = ENCODER_RESOLUTION * GEARRATIO / (2*WHEEL_RADIUS*M_PI)
MPS2TPS_Num == ENCODER_RESOLUTION * GEARRATIO * PiDen
MPS2TPS_Den == 2 * WHEEL_RADIUS * PiNum
\* line 183: TURNOFFSET = MPS2TPS * ROBOT_RADIUS (over MPS2TPS_Den)
TURNOFFSET_Num == MPS2TPS_Num * ROBOT_RADIUS
\* a wheel velocity v stands for v / VelDen encoder ticks per second
VelDen == MPS2TPS_Den * Unit

\* line 171: abs(linear) > TOPSPEED, under the abs() the build calls
Overspeed(ov, linear) ==
    IF ov = "int"
    THEN (Abs(linear) \div Unit) > TOPSPEED
    ELSE Abs(linear) > TOPSPEED * Unit

\* lines 171-179: the pair the conversion uses
Clamp(ov, linear, angular) ==
    IF Overspeed(ov, linear) THEN << 0, 0 >> ELSE << linear, angular >>

\* left_velocity with the sign of line 186
left_velocity_sum(linear, angular) ==
    ((linear * MPS2TPS_Num) + (TURNOFFSET_Num * angular)) * LEFT_MOTOR_WARP

\* line 185
left_velocity(linear, angular) ==
    ((linear * MPS2TPS_Num) - (TURNOFFSET_Num * angular)) * LEFT_MOTOR_WARP

\* line 186
right_velocity(linear, angular) ==
    ((linear * MPS2TPS_Num) + (TURNOFFSET_Num * angular)) * RIGHT_MOTOR_WARP

(***************************************************************************)
(* The motion callback, lines 52-57, and callAvailable running every       *)
(* callback that is queued, in order.                                      *)
(***************************************************************************)
motionCallback(st, msg) ==
    [ tripped |-> TRUE, linear |-> msg[1], angular |-> msg[2] ]

\* RunCallbacks keeping the first message's values instead of the last's
RunCallbacks_first(st, q) ==
    IF q = << >> THEN st
    ELSE motionCallback(st, Head(q))

RECURSIVE RunCallbacks(_, _)
RunCallbacks(st, q) ==
    IF q = << >> THEN st
    ELSE RunCallbacks(motionCallback(st, Head(q)), Tail(q))

\* the log entry of one motorController call
Call(ch, op, arg) == << ch, op, arg >>

\* what a call does to its channel: stopMotor and toggleMotor(false) leave
\* it off; toggleMotor(true) leaves it on when it and every earlier call of
\* this initMotors returned 1
Effect(on, c, r) ==
    IF c[2] = "stopMotor" THEN FALSE
    ELSE IF c[2] = "toggleMotor"
         THEN (c[3] = 1 /\ r = 1 /\ nFailed = 0)
         ELSE on

\* a call is made and returns r: it is logged, a failure is counted and the
\* channel takes its effect
Issue(c, r) ==
    /\ opLog' = Append(opLog, c)
    /\ nFailed' = IF r # 1 THEN nFailed + 1 ELSE nFailed
    /\ firstFailed' = IF r # 1 /\ nFailed = 0 THEN Len(opLog) + 1
                       ELSE firstFailed
    /\ chanOn' = [ chanOn EXCEPT ![c[1]] = Effect(chanOn[c[1]], c, r) ]

ClearCalls ==
    /\ opLog' = << >>
    /\ nFailed' = 0
    /\ firstFailed' = 0

\* Accumulate as "success = ( call == 1 );": the last call decides
Accumulate_last(s, r) == (r = 1)

\* "if( call != 1 ) success = false;"
Accumulate(s, r) == IF r # 1 THEN FALSE ELSE s

\* the calls of one pass of initMotors' loop body, lines 207-210
InitOps == << << "stopMotor", 0 >>, << "setMode", 5 >>,
              << "setEncoder", 0 >>, << "toggleMotor", 1 >> >>

\* the calls of one pass of killMotors' loop body, lines 228-229
KillOps == << << "stopMotor", 0 >>, << "toggleMotor", 0 >> >>

(***************************************************************************)
(* Initial state: the process image before main runs.  The globals have    *)
(* static storage and start zeroed.                                        *)
(***************************************************************************)
Init ==
    /\ g_watchdog_tripped = FALSE
    /\ g_motors_enabled = FALSE
    /\ g_linear_velocity = 0
    /\ g_angular_velocity = 0
    /\ pc = "main"
    /\ i = 0
    /\ step = 1
    /\ success = TRUE
    /\ opLog = << >>
    /\ nFailed = 0
    /\ firstFailed = 0
    /\ queue = << >>
    /\ rosok = TRUE
    /\ monPc = [ c \in Channels |-> "off" ]
    /\ encPc = "off"
    /\ abs_overload \in AbsOverloads
    /\ waited = 0
    /\ sinceCmd = 0
    /\ busy = 0
    /\ cmdSeen = FALSE
    /\ reinit = "none"
    /\ timeouts = 0
    /\ faultPending = FALSE
    /\ faultUnseen = FALSE
    /\ sincePub = 0
    /\ quiet = TRUE
    /\ batch = << >>
    /\ chanOn = [ c \in Channels |-> FALSE ]

\* entering initMotors or killMotors: "bool success = true; for( int i = 0;"
EnterProc ==
    /\ i' = 0
    /\ step' = 1
    /\ success' = TRUE
    /\ ClearCalls

\* LoopBodyStep returning from the function at the first failed call
LoopBodyStep_aborts(ops) ==
    /\ i < NUMBER_OF_MOTORS
    /\ \E r \in RetCodes :
          /\ Issue(Call(i, ops[step][1], ops[step][2]), r)
          /\ success' = Accumulate(success, r)
          /\ IF r # 1
             THEN /\ step' = 1
                  /\ i' = NUMBER_OF_MOTORS
             ELSE IF step < Len(ops)
                  THEN /\ step' = step + 1
                       /\ i' = i
                  ELSE /\ step' = 1
                       /\ i' = i + 1

\* one motorController call of a loop body whose calls are ops
LoopBodyStep(ops) ==
    /\ i < NUMBER_OF_MOTORS
    /\ \E r \in RetCodes :
          /\ Issue(Call(i, ops[step][1], ops[step][2]), r)
          /\ success' = Accumulate(success, r)
    /\ IF step < Len(ops)
       THEN /\ step' = step + 1
            /\ i' = i
       ELSE /\ step' = 1
            /\ i' = i + 1

(***************************************************************************)
(* main: startup, lines 61-100.                                            *)
(***************************************************************************)
\* lines 61-80: subscribe, zero the globals, construct the controllers and
\* call initMotors
main_begin ==
    /\ pc = "main"
    /\ g_watchdog_tripped' = FALSE
    /\ g_motors_enabled' = FALSE
    /\ g_linear_velocity' = 0
    /\ g_angular_velocity' = 0
    /\ EnterProc
    /\ pc' = "s_init"
    /\ UNCHANGED << queue, rosok, threads, abs_overload, clocks, ghosts >>
    /\ UNCHANGED watch
    /\ UNCHANGED hw
    /\ UNCHANGED batch

\* initMotors, lines 205-212: one call on channel i
initMotors_step ==
    /\ pc \in {"s_init", "r_init"}
    /\ LoopBodyStep(InitOps)
    /\ UNCHANGED << globals, pc, queue, rosok, threads, abs_overload,
                    clocks, ghosts >>
    /\ UNCHANGED watch
    /\ UNCHANGED batch

\* main_startup_assign without the return of lines 81-85
main_startup_assign_no_bail ==
    /\ pc = "s_init"
    /\ i = NUMBER_OF_MOTORS
    /\ g_motors_enabled' = success
    /\ pc' = "spawn"
    /\ UNCHANGED << g_watchdog_tripped, g_linear_velocity, g_angular_velocity,
                    proc, queue, rosok, threads, abs_overload, clocks,
                    ghosts >>
    /\ UNCHANGED watch
    /\ UNCHANGED hw
    /\ UNCHANGED batch

\* lines 80-85: g_motors_enabled = initMotors( m ); bail out on failure
main_startup_assign ==
    /\ pc = "s_init"
    /\ i = NUMBER_OF_MOTORS
    /\ g_motors_enabled' = success
    /\ pc' = IF success = FALSE THEN "exit_fail" ELSE "spawn"
    /\ UNCHANGED << g_watchdog_tripped, g_linear_velocity, g_angular_velocity,
                    proc, queue, rosok, threads, abs_overload,
                    clocks, ghosts >>
    /\ UNCHANGED watch
    /\ UNCHANGED hw
    /\ UNCHANGED batch

\* lines 91-100: create the two receiver threads and the encoder thread
main_spawn ==
    /\ pc = "spawn"
    /\ monPc' = [ c \in Channels |-> "loop" ]
    /\ encPc' = "loop"
    /\ pc' = "loop"
    /\ UNCHANGED << globals, proc, queue, rosok, abs_overload,
                    clocks, ghosts >>
    /\ UNCHANGED watch
    /\ UNCHANGED hw
    /\ UNCHANGED batch

(***************************************************************************)
(* main: the watchdog loop, lines 102-128.                                 *)
(***************************************************************************)
\* main_loop with callbacks that ran as their messages arrived: the
\* pending messages have set the globals already, and the clear of line 104
\* erases their mark
main_loop_erases ==
    /\ pc = "loop"
    /\ LET st == RunCallbacks([ tripped |-> g_watchdog_tripped,
                                linear  |-> g_linear_velocity,
                                angular |-> g_angular_velocity ], queue)
       IN  /\ g_linear_velocity' = st.linear
           /\ g_angular_velocity' = st.angular
           /\ IF rosok
              THEN /\ g_watchdog_tripped' = FALSE
                   /\ pc' = "wait"
              ELSE /\ g_watchdog_tripped' = st.tripped
                   /\ pc' = "exit_ok"
    /\ queue' = << >>
    /\ waited' = 0
    /\ ClearCalls
    /\ reinit' = "none"
    /\ UNCHANGED << g_motors_enabled, i, step, success, rosok, threads,
                    abs_overload, sinceCmd, busy, cmdSeen, timeouts,
                    faultPending >>
    /\ UNCHANGED watch
    /\ UNCHANGED hw
    /\ batch' = << >>

\* main_loop with a timeout that is not re-armed: the time already waited
\* in earlier callAvailable calls still counts
main_loop_no_rearm ==
    /\ pc = "loop"
    /\ IF rosok
       THEN /\ g_watchdog_tripped' = FALSE
            /\ pc' = "wait"
       ELSE /\ g_watchdog_tripped' = g_watchdog_tripped
            /\ pc' = "exit_ok"
    /\ waited' = waited
    /\ ClearCalls
    /\ reinit' = "none"
    /\ UNCHANGED << g_motors_enabled, g_linear_velocity, g_angular_velocity,
                    i, step, success, queue, rosok, threads, abs_overload,
                    sinceCmd, busy, cmdSeen, timeouts, faultPending >>
    /\ UNCHANGED watch
    /\ UNCHANGED hw
    /\ batch' = << >>

\* lines 102-111: test ros::ok(), clear the flag, enter callAvailable
main_loop ==
    /\ pc = "loop"
    /\ IF rosok
       THEN /\ g_watchdog_tripped' = FALSE
            /\ pc' = "wait"
       ELSE /\ g_watchdog_tripped' = g_watchdog_tripped
            /\ pc' = "exit_ok"
    /\ waited' = 0
    /\ ClearCalls
    /\ reinit' = "none"
    /\ UNCHANGED << g_motors_enabled, g_linear_velocity, g_angular_velocity,
                    i, step, success, queue, rosok, threads, abs_overload,
                    sinceCmd, busy, cmdSeen, timeouts, faultPending >>
    /\ UNCHANGED watch
    /\ UNCHANGED hw
    /\ batch' = << >>

\* lines 110-111: callAvailable finds callbacks queued and runs them all;
\* b is what the history variable batch records of it
Deliver(b) ==
    /\ pc = "wait"
    /\ queue # << >>
    /\ LET st == RunCallbacks([ tripped |-> g_watchdog_tripped,
                                linear  |-> g_linear_velocity,
                                angular |-> g_angular_velocity ], queue)
       IN  /\ g_watchdog_tripped' = st.tripped
           /\ g_linear_velocity' = st.linear
           /\ g_angular_velocity' = st.angular
    /\ queue' = << >>
    /\ pc' = "branch"
    /\ cmdSeen' = TRUE
    /\ sinceCmd' = 0
    /\ busy' = 0
    /\ UNCHANGED << g_motors_enabled, proc, rosok, threads, abs_overload,
                    waited, reinit, timeouts, faultPending >>
    /\ UNCHANGED watch
    /\ UNCHANGED hw
    /\ batch' = b

\* callAvailable returning after callbacks ran (batch is not recorded)
callAvailable_deliver == Deliver(<< >>)

\* the same step, recording the messages delivered
callAvailable_deliver_burst == Deliver(queue)

\* callAvailable_timeout returning one tick before WATCHDOG_TIMEOUT
callAvailable_timeout_early ==
    /\ pc = "wait"
    /\ queue = << >>
    /\ waited >= WATCHDOG_TIMEOUT - 1
    /\ pc' = "branch"
    /\ UNCHANGED << globals, proc, queue, rosok, threads, abs_overload,
                    clocks, ghosts >>
    /\ UNCHANGED watch
    /\ UNCHANGED hw
    /\ UNCHANGED batch

\* lines 110-111: WATCHDOG_TIMEOUT has passed with nothing queued
callAvailable_timeout ==
    /\ pc = "wait"
    /\ queue = << >>
    /\ waited >= WATCHDOG_TIMEOUT
    /\ pc' = "branch"
    /\ UNCHANGED << globals, proc, queue, rosok, threads, abs_overload,
                    clocks, ghosts >>
    /\ UNCHANGED watch
    /\ UNCHANGED hw
    /\ UNCHANGED batch

\* main_branch running killMotors only when the flag is still true
main_branch_skips_when_disabled ==
    /\ pc = "branch"
    /\ IF g_watchdog_tripped = FALSE
       THEN /\ pc' = IF g_motors_enabled THEN "kill" ELSE "loop"
            /\ EnterProc
            /\ timeouts' = IF timeouts < 2 THEN timeouts + 1 ELSE 2
       ELSE /\ pc' = "chk"
            /\ UNCHANGED proc
            /\ timeouts' = 0
    /\ UNCHANGED << globals, queue, rosok, threads, abs_overload, clocks,
                    cmdSeen, reinit, faultPending >>
    /\ UNCHANGED watch
    /\ UNCHANGED hw
    /\ UNCHANGED batch

\* line 113: if( g_watchdog_tripped == false ) ... killMotors(m)
main_branch ==
    /\ pc = "branch"
    /\ IF g_watchdog_tripped = FALSE
       THEN /\ pc' = "kill"
            /\ EnterProc
            /\ timeouts' = IF timeouts < 2 THEN timeouts + 1 ELSE 2
       ELSE /\ pc' = "chk"
            /\ UNCHANGED proc
            /\ timeouts' = 0
    /\ UNCHANGED << globals, queue, rosok, threads, abs_overload, clocks,
                    cmdSeen, reinit, faultPending >>
    /\ UNCHANGED watch
    /\ UNCHANGED hw
    /\ UNCHANGED batch

\* killMotors, lines 226-230: one call on channel i
killMotors_step ==
    /\ pc = "kill"
    /\ LoopBodyStep(KillOps)
    /\ UNCHANGED << globals, pc, queue, rosok, threads, abs_overload,
                    clocks, ghosts >>
    /\ UNCHANGED watch
    /\ UNCHANGED batch

\* main_kill_assign acting on killMotors' result: a failed kill ends main
main_kill_assign_escalates ==
    /\ pc = "kill"
    /\ i = NUMBER_OF_MOTORS
    /\ g_motors_enabled' = FALSE
    /\ pc' = IF success THEN "loop" ELSE "exit_fail"
    /\ faultPending' = FALSE
    /\ UNCHANGED << g_watchdog_tripped, g_linear_velocity, g_angular_velocity,
                    proc, queue, rosok, threads, abs_overload, clocks,
                    cmdSeen, reinit, timeouts >>
    /\ faultUnseen' = FALSE
    /\ UNCHANGED << sincePub, quiet >>
    /\ UNCHANGED hw
    /\ UNCHANGED batch

\* main_kill_assign without line 117: the flag is left as it was
main_kill_assign_keeps_flag ==
    /\ pc = "kill"
    /\ i = NUMBER_OF_MOTORS
    /\ pc' = "loop"
    /\ faultPending' = FALSE
    /\ UNCHANGED << globals, proc, queue, rosok, threads, abs_overload,
                    clocks, cmdSeen, reinit, timeouts >>
    /\ faultUnseen' = FALSE
    /\ UNCHANGED << sincePub, quiet >>
    /\ UNCHANGED hw
    /\ UNCHANGED batch

\* lines 116-117: killMotors has returned (its result is dropped);
\* g_motors_enabled = false
main_kill_assign ==
    /\ pc = "kill"
    /\ i = NUMBER_OF_MOTORS
    /\ g_motors_enabled' = FALSE
    /\ pc' = "loop"
    /\ faultPending' = FALSE
    /\ UNCHANGED << g_watchdog_tripped, g_linear_velocity, g_angular_velocity,
                    proc, queue, rosok, threads, abs_overload, clocks,
                    cmdSeen, reinit, timeouts >>
    /\ faultUnseen' = FALSE
    /\ UNCHANGED << sincePub, quiet >>
    /\ UNCHANGED hw
    /\ UNCHANGED batch

\* main_check_enabled without the test of line 121: initMotors every time
main_check_enabled_always ==
    /\ pc = "chk"
    /\ pc' = "r_init"
    /\ EnterProc
    /\ UNCHANGED << globals, queue, rosok, threads, abs_overload, clocks,
                    ghosts >>
    /\ faultUnseen' = FALSE
    /\ UNCHANGED << sincePub, quiet >>
    /\ UNCHANGED hw
    /\ UNCHANGED batch

\* line 121: if( g_motors_enabled == false ) ... initMotors( m )
main_check_enabled ==
    /\ pc = "chk"
    /\ IF g_motors_enabled = FALSE
       THEN /\ pc' = "r_init"
            /\ EnterProc
       ELSE /\ pc' = "setvel"
            /\ UNCHANGED proc
    /\ UNCHANGED << globals, queue, rosok, threads, abs_overload, clocks,
                    ghosts >>
    /\ faultUnseen' = IF g_motors_enabled = FALSE THEN FALSE ELSE faultUnseen
    /\ UNCHANGED << sincePub, quiet >>
    /\ UNCHANGED hw
    /\ UNCHANGED batch

\* line 123: g_motors_enabled = initMotors( m ), then on to line 126
main_reinit_assign ==
    /\ pc = "r_init"
    /\ i = NUMBER_OF_MOTORS
    /\ g_motors_enabled' = success
    /\ pc' = "setvel"
    /\ reinit' = IF success THEN "ok" ELSE "failed"
    /\ ClearCalls
    /\ UNCHANGED << g_watchdog_tripped, g_linear_velocity, g_angular_velocity,
                    i, step, success, queue, rosok, threads, abs_overload,
                    clocks, cmdSeen, timeouts, faultPending >>
    /\ UNCHANGED watch
    /\ UNCHANGED hw
    /\ UNCHANGED batch

\* "success &= m[..].setVelocity( v )"
AndAssign(s, r) == s /\ (r % 2 = 1)

\* setVelocity_left returning at once when the left channel's call fails
setVelocity_left_aborts ==
    /\ pc = "setvel"
    /\ LET c == Clamp(abs_overload, g_linear_velocity, g_angular_velocity)
       IN  \E r \in RetCodes :
              /\ Issue(Call(LEFT_MOTOR_CHANNEL, "setVelocity",
                            left_velocity(c[1], c[2])), r)
              /\ success' = AndAssign(TRUE, r)
              /\ pc' = IF r = 1 THEN "setvel_r" ELSE "loop"
    /\ UNCHANGED << globals, i, step, queue, rosok, threads, abs_overload,
                    clocks, ghosts >>
    /\ UNCHANGED watch
    /\ UNCHANGED batch

\* lines 126, 163-190: setVelocity( m, g_linear_velocity, g_angular_velocity )
\* up to the call on the left channel
setVelocity_left ==
    /\ pc = "setvel"
    /\ LET c == Clamp(abs_overload, g_linear_velocity, g_angular_velocity)
       IN  \E r \in RetCodes :
              /\ Issue(Call(LEFT_MOTOR_CHANNEL, "setVelocity",
                            left_velocity(c[1], c[2])), r)
              /\ success' = AndAssign(TRUE, r)
    /\ pc' = "setvel_r"
    /\ UNCHANGED << globals, i, step, queue, rosok, threads, abs_overload,
                    clocks, ghosts >>
    /\ UNCHANGED watch
    /\ UNCHANGED batch

\* lines 191-198: the call on the right channel, and return
setVelocity_right ==
    /\ pc = "setvel_r"
    /\ LET c == Clamp(abs_overload, g_linear_velocity, g_angular_velocity)
       IN  \E r \in RetCodes :
              /\ Issue(Call(RIGHT_MOTOR_CHANNEL, "setVelocity",
                            right_velocity(c[1], c[2])), r)
              /\ success' = AndAssign(success, r)
    /\ pc' = "loop"
    /\ UNCHANGED << globals, i, step, queue, rosok, threads, abs_overload,
                    clocks, ghosts >>
    /\ UNCHANGED watch
    /\ UNCHANGED batch

(***************************************************************************)
(* receiverControl, lines 133-152: one thread per channel.                 *)
(***************************************************************************)
\* AfterMarkers as "g_motors_enabled = ( no marker found );"
AfterMarkers_assigns(enabled, b) == (b = "none")

\* g_motors_enabled after the two strstr tests of lines 141-148 on a
\* buffer in which strstr finds b
AfterMarkers(enabled, b) == IF b = "none" THEN enabled ELSE FALSE

\* lines 138-149: one pass of the loop: readSerial returns and the two
\* strstr tests run.  The read touches nothing shared, so the pass is one
\* step, taken when the flag is written.
receiverControl_pass(c) ==
    /\ monPc[c] = "loop"
    /\ rosok
    /\ \E b \in Markers :
          /\ g_motors_enabled' = AfterMarkers(g_motors_enabled, b)
          /\ faultPending' = IF b # "none" THEN TRUE ELSE faultPending
          /\ faultUnseen' = IF b # "none" THEN TRUE ELSE faultUnseen
          /\ batch' = batch
          /\ quiet' = IF b # "none" THEN FALSE ELSE quiet
          /\ sincePub' = IF b # "none" THEN 0 ELSE sincePub
    /\ UNCHANGED << g_watchdog_tripped, g_linear_velocity, g_angular_velocity,
                    pc, proc, queue, rosok, threads, abs_overload, clocks,
                    cmdSeen, reinit, timeouts >>
    /\ UNCHANGED hw

\* lines 138, 151: ros::ok() is false; pthread_exit
receiverControl_exit(c) ==
    /\ monPc[c] = "loop"
    /\ ~rosok
    /\ monPc' = [ monPc EXCEPT ![c] = "done" ]
    /\ UNCHANGED << globals, pc, proc, queue, rosok, encPc,
                    abs_overload, clocks, ghosts >>
    /\ UNCHANGED watch
    /\ UNCHANGED hw
    /\ UNCHANGED batch

(***************************************************************************)
(* encoderControl, lines 154-161.                                          *)
(***************************************************************************)
\* lines 156-158: while(ros::ok()) { sleep(1);
encoderControl_sleep ==
    /\ encPc = "loop"
    /\ rosok
    /\ encPc' = "sleep"
    /\ UNCHANGED << globals, pc, proc, queue, rosok, monPc,
                    abs_overload, clocks, ghosts >>
    /\ UNCHANGED watch
    /\ UNCHANGED hw
    /\ UNCHANGED batch

\* sleep(1) returns
encoderControl_wake ==
    /\ encPc = "sleep"
    /\ encPc' = "loop"
    /\ UNCHANGED << globals, pc, proc, queue, rosok, monPc,
                    abs_overload, clocks, ghosts >>
    /\ UNCHANGED watch
    /\ UNCHANGED hw
    /\ UNCHANGED batch

\* lines 156, 160: ros::ok() is false; pthread_exit
encoderControl_exit ==
    /\ encPc = "loop"
    /\ ~rosok
    /\ encPc' = "done"
    /\ UNCHANGED << globals, pc, proc, queue, rosok, monPc,
                    abs_overload, clocks, ghosts >>
    /\ UNCHANGED watch
    /\ UNCHANGED hw
    /\ UNCHANGED batch

(***************************************************************************)
(* The environment: the transport, shutdown, and time.                     *)
(***************************************************************************)
Subscribed == pc \notin {"main", "exit_fail", "exit_ok"}

InLoop == pc \in {"loop", "wait", "branch", "kill", "chk", "r_init",
                  "setvel", "setvel_r"}

\* line 64: a message published on the motion topic is queued for main
publish ==
    /\ Subscribed
    /\ rosok
    /\ Len(queue) < MaxQueue
    /\ \E m \in Cmds : queue' = Append(queue, m)
    /\ UNCHANGED << globals, pc, proc, rosok, threads, abs_overload, clocks,
                    ghosts >>
    /\ sincePub' = 0
    /\ UNCHANGED << faultUnseen, quiet >>
    /\ UNCHANGED hw
    /\ UNCHANGED batch

\* the node is shut down: ros::ok() turns false
shutdown ==
    /\ InLoop
    /\ rosok
    /\ rosok' = FALSE
    /\ UNCHANGED << globals, pc, proc, queue, threads, abs_overload, clocks,
                    ghosts >>
    /\ UNCHANGED watch
    /\ UNCHANGED hw
    /\ UNCHANGED batch

Sat(n) == IF n < SinceCap THEN n + 1 ELSE SinceCap

\* a tick for the gap between publications: once a gap has lasted
\* WATCHDOG_TIMEOUT the run is no longer quiet (and the gap is no longer
\* measured)
Elapse ==
    IF quiet /\ sincePub + 1 < WATCHDOG_TIMEOUT
    THEN /\ sincePub' = sincePub + 1
         /\ quiet' = quiet
    ELSE /\ sincePub' = 0
         /\ quiet' = FALSE

\* one tick passes while main is blocked in callAvailable; the call returns
\* as soon as a callback is queued and no later than WATCHDOG_TIMEOUT
tick_waiting ==
    /\ pc = "wait"
    /\ queue = << >>
    /\ waited < WATCHDOG_TIMEOUT
    /\ waited' = waited + 1
    /\ sinceCmd' = IF cmdSeen THEN Sat(sinceCmd) ELSE sinceCmd
    /\ UNCHANGED << globals, pc, proc, queue, rosok, threads, abs_overload,
                    busy, ghosts >>
    /\ Elapse
    /\ UNCHANGED faultUnseen
    /\ UNCHANGED hw
    /\ UNCHANGED batch

\* one tick passes while main is at work between two callAvailable calls
tick_busy ==
    /\ InLoop
    /\ pc # "wait"
    /\ cmdSeen
    /\ busy < MaxBusy
    /\ busy' = busy + 1
    /\ sinceCmd' = Sat(sinceCmd)
    /\ UNCHANGED << globals, pc, proc, queue, rosok, threads, abs_overload,
                    waited, ghosts >>
    /\ Elapse
    /\ UNCHANGED faultUnseen
    /\ UNCHANGED hw
    /\ UNCHANGED batch

Next ==
    \/ main_begin
    \/ initMotors_step
    \/ main_startup_assign
    \/ main_spawn
    \/ main_loop
    \/ callAvailable_deliver
    \/ callAvailable_timeout
    \/ main_branch
    \/ killMotors_step
    \/ main_kill_assign
    \/ main_check_enabled
    \/ main_reinit_assign
    \/ setVelocity_left
    \/ setVelocity_right
    \/ \E c \in Channels : receiverControl_pass(c)
    \/ \E c \in Channels : receiverControl_exit(c)
    \/ encoderControl_sleep
    \/ encoderControl_wake
    \/ encoderControl_exit
    \/ publish
    \/ shutdown
    \/ tick_waiting
    \/ tick_busy

Spec == Init /\ [][Next]_vars

(***************************************************************************)
(* The main thread with bursts of messages: up to MaxBurst messages are    *)
(* queued for one callAvailable; the receiver and encoder threads, once    *)
(* created, are left out of the schedule (they touch neither the queue nor *)
(* the velocity globals).                                                  *)
(***************************************************************************)
\* line 64: a message published on the motion topic is queued for main,
\* behind those already queued
publish_burst ==
    /\ Subscribed
    /\ rosok
    /\ Len(queue) < MaxBurst
    /\ \E m \in Cmds : queue' = Append(queue, m)
    /\ sincePub' = 0
    /\ UNCHANGED << globals, pc, proc, rosok, threads, abs_overload, clocks,
                    ghosts, faultUnseen, quiet, batch >>
    /\ UNCHANGED hw

BurstNext ==
    \/ main_begin
    \/ initMotors_step
    \/ main_startup_assign
    \/ main_spawn
    \/ main_loop
    \/ callAvailable_deliver_burst
    \/ callAvailable_timeout
    \/ main_branch
    \/ killMotors_step
    \/ main_kill_assign
    \/ main_check_enabled
    \/ main_reinit_assign
    \/ setVelocity_left
    \/ setVelocity_right
    \/ publish_burst
    \/ shutdown
    \/ tick_waiting
    \/ tick_busy

BurstSpec == Init /\ [][BurstNext]_vars

(***************************************************************************)
(* setVelocity on its own: main stands at line 126 of a running node with  *)
(* any pair in the two velocity globals, and the call runs.                *)
(***************************************************************************)
KinInit ==
    /\ g_watchdog_tripped = TRUE
    /\ g_motors_enabled = TRUE
    /\ \E in \in KinInputs :
          /\ g_linear_velocity = in[1]
          /\ g_angular_velocity = in[2]
    /\ pc = "setvel"
    /\ i = NUMBER_OF_MOTORS
    /\ step = 1
    /\ success = TRUE
    /\ opLog = << >>
    /\ nFailed = 0
    /\ firstFailed = 0
    /\ queue = << >>
    /\ rosok = TRUE
    /\ monPc = [ c \in Channels |-> "loop" ]
    /\ encPc = "loop"
    /\ abs_overload \in AbsOverloads
    /\ waited = 0
    /\ sinceCmd = 0
    /\ busy = 0
    /\ cmdSeen = TRUE
    /\ reinit = "none"
    /\ timeouts = 0
    /\ faultPending = FALSE
    /\ faultUnseen = FALSE
    /\ sincePub = 0
    /\ quiet = TRUE
    /\ batch = << >>
    /\ chanOn = [ c \in Channels |-> TRUE ]

KinNext ==
    \/ setVelocity_left
    \/ setVelocity_right

KinSpec == KinInit /\ [][KinNext]_vars

(***************************************************************************)
(* Properties.                                                             *)
(***************************************************************************)
\* a setVelocity call is in the log of the running iteration
VelocityIssued == \E k \in 1 .. Len(opLog) : opLog[k][2] = "setVelocity"

\* the last command has been run by callAvailable and none was published since
LastCommandStands == cmdSeen /\ queue = << >>

\* C1, as stated: when a command was processed and no further command has
\* arrived, g_motors_enabled is false once more than WATCHDOG_TIMEOUT has
\* passed since that command.
C1_DisabledWithinOneTimeout ==
    (LastCommandStands /\ sinceCmd > WATCHDOG_TIMEOUT) => ~g_motors_enabled

\* C1, amended: when a command was processed and no further command has
\* arrived, g_motors_enabled is true only while the time since that command
\* is at most WATCHDOG_TIMEOUT plus the time main has spent outside
\* callAvailable since (applying the command, running killMotors): main
\* waits at most one timeout, and the timed-out iteration clears the flag.
\* (Time is counted while the node runs: main inside its loop.)
C1_DisabledAfterOneWait ==
    (LastCommandStands /\ g_motors_enabled)
        => sinceCmd <= WATCHDOG_TIMEOUT + busy

\* C1's case: a command was applied, time passed while main was at work,
\* the next wait lasted WATCHDOG_TIMEOUT and timed out, killMotors ran and
\* the flag is false, with no fault report involved.
C1_Witness ==
    /\ LastCommandStands
    /\ pc = "loop"
    /\ timeouts = 1
    /\ busy >= 1
    /\ sinceCmd = WATCHDOG_TIMEOUT + busy
    /\ ~g_motors_enabled
    /\ ~faultPending

\* C2, as stated: in an iteration whose initMotors failed, no setVelocity
\* call is issued to a channel.
C2_NoVelocityAfterFailedInit ==
    reinit = "failed" => ~VelocityIssued

\* C3, as stated: once a receiver thread has seen a marker, no setVelocity
\* call is issued to either channel until killMotors has run on both.
C3_KillBeforeNextVelocity ==
    [][ (faultPending /\ pc \in {"setvel", "setvel_r"}) => pc' = pc ]_vars

\* C4: after startup, g_motors_enabled turns from false to true only in
\* main's step at line 123, in an iteration whose callAvailable ran a
\* callback (g_watchdog_tripped is true) and whose initMotors returned
\* success; no receiver thread step turns it true.  (Line 80 sets it once,
\* before the loop and the threads exist.)
C4_EnabledOnlyByReinit ==
    [][ (InLoop /\ ~g_motors_enabled /\ g_motors_enabled')
            => /\ pc = "r_init"
               /\ i = NUMBER_OF_MOTORS
               /\ pc' = "setvel"
               /\ g_watchdog_tripped
               /\ success
               /\ nFailed = 0 ]_vars

\* C4's case: the flag is false, a command arrived, initMotors has just
\* returned success and line 123 is about to set the flag.
C4_Witness ==
    /\ pc = "r_init"
    /\ i = NUMBER_OF_MOTORS
    /\ ~g_motors_enabled
    /\ g_watchdog_tripped
    /\ success
    /\ timeouts = 0
    /\ cmdSeen

\* main finishes the branch of a timed-out iteration (lines 113-118)
TimeoutDisables ==
    /\ pc = "kill"
    /\ i = NUMBER_OF_MOTORS
    /\ ~g_watchdog_tripped
    /\ pc' = "loop"

\* a receiver thread that found a marker writes the flag; main does not move
FaultDisables ==
    /\ \E c \in Channels : monPc[c] = "loop"
    /\ faultPending'
    /\ UNCHANGED << pc, proc >>

\* C5: every step that turns g_motors_enabled from true to false is either
\* main finishing a timed-out iteration or a receiver thread that found a
\* marker, and never both.
C5_DisabledOnlyByTimeoutOrFault ==
    [][ (g_motors_enabled /\ ~g_motors_enabled')
            => /\ TimeoutDisables \/ FaultDisables
               /\ ~(TimeoutDisables /\ FaultDisables) ]_vars

\* C5's case: the motors are enabled, the wait timed out, killMotors has
\* returned and line 117 is about to clear the flag.
C5_Witness ==
    /\ pc = "kill"
    /\ i = NUMBER_OF_MOTORS
    /\ g_motors_enabled
    /\ ~g_watchdog_tripped
    /\ ~faultPending

\* the eight calls of initMotors, in order
ExpectedInitCalls ==
    << << 0, "stopMotor", 0 >>, << 0, "setMode", 5 >>,
       << 0, "setEncoder", 0 >>, << 0, "toggleMotor", 1 >>,
       << 1, "stopMotor", 0 >>, << 1, "setMode", 5 >>,
       << 1, "setEncoder", 0 >>, << 1, "toggleMotor", 1 >> >>

ThreadsOff == (\A c \in Channels : monPc[c] = "off") /\ encPc = "off"

\* C6: when the startup initMotors fails, main returns at once: no receiver
\* or encoder thread exists, the loop was never entered (no callback ran,
\* no iteration timed out), the only calls ever made on a channel are those
\* of initMotors (no setVelocity, no toggleMotor(false)), and nothing
\* happens afterwards.  Conversely the threads are created, and the loop is
\* entered, only after a startup initMotors without a failed call.
C6_StartupFailureTerminates ==
    /\ pc = "exit_fail"
          => /\ nFailed > 0
             /\ ~g_motors_enabled
             /\ ThreadsOff
             /\ opLog = ExpectedInitCalls
             /\ ~cmdSeen
             /\ timeouts = 0
             /\ ~ENABLED Next
    /\ pc = "spawn" => (nFailed = 0 /\ g_motors_enabled /\ ThreadsOff)
    /\ ~ThreadsOff => InLoop \/ pc = "exit_ok"

\* C6's case: a call of the startup initMotors failed and main has returned.
C6_Witness ==
    /\ pc = "exit_fail"
    /\ nFailed = 1
    /\ firstFailed = 3
    /\ queue # << >>

\* C7: initMotors issues stopMotor, setMode(5), setEncoder(0),
\* toggleMotor(true) on channel 0 and then on channel 1, goes on after a
\* failed call until all eight are made, and returns success exactly when
\* none failed; when only channel 1's setEncoder fails it returns failure,
\* and after a failed initMotors g_motors_enabled is false.
C7_InitMotorsAllStepsAndResult ==
    /\ pc \in {"s_init", "r_init"}
          => /\ Len(opLog) = 4 * i + (step - 1)
             /\ opLog = SubSeq(ExpectedInitCalls, 1, Len(opLog))
             /\ i = NUMBER_OF_MOTORS
                   => /\ opLog = ExpectedInitCalls
                      /\ success <=> (nFailed = 0)
             /\ (i = NUMBER_OF_MOTORS /\ nFailed = 1 /\ firstFailed = 7)
                   => ~success
    /\ (pc = "setvel" /\ reinit = "failed") => ~g_motors_enabled
    /\ pc = "exit_fail" => ~g_motors_enabled

\* C7's case: a re-initialisation in which only channel 1's setEncoder (the
\* seventh call) failed has made all eight calls and returns failure.
C7_Witness ==
    /\ pc = "r_init"
    /\ i = NUMBER_OF_MOTORS
    /\ opLog = ExpectedInitCalls
    /\ nFailed = 1
    /\ firstFailed = 7
    /\ ~success
    /\ ~g_motors_enabled

\* setVelocity has made both of its calls and returned
SentBoth ==
    /\ pc = "loop"
    /\ Len(opLog) = 2
    /\ opLog[1][2] = "setVelocity"
    /\ opLog[2][2] = "setVelocity"

\* the value setVelocity passed to channel ch
Sent(ch) == IF opLog[1][1] = ch THEN opLog[1][3] ELSE opLog[2][3]

\* C8, as stated: for a commanded linear with |linear| > TOPSPEED, whatever
\* the angular, both wheel velocities setVelocity sends are 0.
C8_OverspeedStops ==
    (SentBoth /\ Abs(g_linear_velocity) > TOPSPEED * Unit)
        => (Sent(LEFT_MOTOR_CHANNEL) = 0 /\ Sent(RIGHT_MOTOR_CHANNEL) = 0)

\* C9: for |linear| <= TOPSPEED, setVelocity sends
\*   (linear*K - K*ROBOT_RADIUS*angular) * LEFT_MOTOR_WARP  to the left and
\*   (linear*K + K*ROBOT_RADIUS*angular) * RIGHT_MOTOR_WARP to the right,
\* K = ENCODER_RESOLUTION*GEARRATIO/(2*WHEEL_RADIUS*pi) (values as
\* numerators over 2*WHEEL_RADIUS*PiNum*Unit); each is additive in the
\* input pair; and with angular = 0 they agree up to the warp factors.
C9_WheelVelocities ==
    (SentBoth /\ Abs(g_linear_velocity) <= TOPSPEED * Unit)
        => LET l == g_linear_velocity
               a == g_angular_velocity
               K == ENCODER_RESOLUTION * GEARRATIO * PiDen
               L == Sent(LEFT_MOTOR_CHANNEL)
               R == Sent(RIGHT_MOTOR_CHANNEL)
           IN  /\ opLog[1][1] = LEFT_MOTOR_CHANNEL
               /\ opLog[2][1] = RIGHT_MOTOR_CHANNEL
               /\ VelDen = 2 * WHEEL_RADIUS * PiNum * Unit
               /\ L = (l * K - K * ROBOT_RADIUS * a) * LEFT_MOTOR_WARP
               /\ R = (l * K + K * ROBOT_RADIUS * a) * RIGHT_MOTOR_WARP
               /\ \A in \in KinInputs :
                     /\ L + left_velocity(in[1], in[2])
                           = left_velocity(l + in[1], a + in[2])
                     /\ R + right_velocity(in[1], in[2])
                           = right_velocity(l + in[1], a + in[2])
               /\ a = 0 => L * RIGHT_MOTOR_WARP = R * LEFT_MOTOR_WARP

\* C9's case: a command within the speed limit, moving and turning, has
\* been sent to both channels.
C9_Witness ==
    /\ SentBoth
    /\ g_linear_velocity = -Unit
    /\ g_angular_velocity = 1
    /\ Sent(LEFT_MOTOR_CHANNEL) # Sent(RIGHT_MOTOR_CHANNEL)

\* C10: after a timed-out iteration, and until a command is processed,
\* g_motors_enabled is false (so it is after each of two timeouts in a
\* row); the step that follows killMotors clears the flag and goes back to
\* the top of the loop whatever killMotors returned, touching nothing else
\* of the program's state; and from the top of the loop main goes on to the
\* next wait unless the node was shut down.
C10_KillTwiceNoEscalation ==
    /\ []( /\ (timeouts >= 1 /\ pc # "kill") => ~g_motors_enabled
           /\ timeouts = 2 => ~g_motors_enabled )
    /\ [][ /\ (pc = "kill" /\ i = NUMBER_OF_MOTORS /\ pc' # pc)
                => /\ pc' = "loop"
                   /\ ~g_motors_enabled'
                   /\ UNCHANGED << g_watchdog_tripped, g_linear_velocity,
                                   g_angular_velocity, queue, rosok,
                                   threads, timeouts >>
           /\ (pc = "loop" /\ pc' # pc)
                => pc' = IF rosok THEN "wait" ELSE "exit_ok" ]_vars

\* C10's case: two iterations in a row timed out, the second killMotors
\* reported a failure, and main is in its next wait with the flag false.
C10_Witness ==
    /\ pc = "wait"
    /\ timeouts = 2
    /\ ~success
    /\ ~g_motors_enabled
    /\ rosok

\* the calls made on channel c, in order
CallsOn(c) == SelectSeq(opLog, LAMBDA e : e[1] = c)

\* C11: killMotors is entered only when a wait has lasted WATCHDOG_TIMEOUT
\* with nothing delivered; and when a command was processed, no other
\* followed and the first wait after it has timed out, then at the end of
\* that iteration at least WATCHDOG_TIMEOUT has passed since the command,
\* killMotors has been invoked once since the command, the calls it made on
\* each channel are exactly one stopMotor and one toggleMotor(false), and
\* g_motors_enabled is false.
C11_SingleCommandKilledOnce ==
    /\ pc = "kill"
          => /\ waited = WATCHDOG_TIMEOUT
             /\ ~g_watchdog_tripped
             /\ timeouts >= 1
    /\ (LastCommandStands /\ timeouts = 0) => pc # "kill"
    /\ (LastCommandStands /\ timeouts = 1 /\ pc = "loop")
          => /\ sinceCmd >= WATCHDOG_TIMEOUT
             /\ \A c \in Channels :
                   CallsOn(c) = << << c, "stopMotor", 0 >>,
                                   << c, "toggleMotor", 0 >> >>
             /\ Len(opLog) = 2 * NUMBER_OF_MOTORS
             /\ ~g_motors_enabled

\* C11's case: the command (1.0, 0.0) was applied, nothing followed, the
\* next wait lasted exactly WATCHDOG_TIMEOUT and timed out, and killMotors
\* has run, without a failed call and without a fault report.
C11_Witness ==
    /\ LastCommandStands
    /\ g_linear_velocity = Unit
    /\ g_angular_velocity = 0
    /\ pc = "loop"
    /\ timeouts = 1
    /\ sinceCmd = WATCHDOG_TIMEOUT
    /\ nFailed = 0
    /\ ~faultPending
    /\ ~g_motors_enabled

\* C12: after a successful startup, as long as no receiver thread has found
\* a marker and every gap between publications (and from the start of the
\* loop to the first) has been shorter than WATCHDOG_TIMEOUT,
\* g_motors_enabled is true, no wait has ended without a command, and
\* neither killMotors nor a re-initialisation has been entered.
C12_SteadyCommandsStayEnabled ==
    (InLoop /\ quiet)
        => /\ g_motors_enabled
           /\ pc = "branch" => g_watchdog_tripped
           /\ pc \notin {"kill", "r_init"}
           /\ timeouts = 0
           /\ reinit = "none"

\* C12's case: a command was applied and, less than WATCHDOG_TIMEOUT after
\* the publication before it, the next one is queued while main waits; no
\* fault was reported and the motors are enabled.
C12_Witness ==
    /\ quiet
    /\ cmdSeen
    /\ pc = "wait"
    /\ waited = 1
    /\ sinceCmd >= 1
    /\ queue # << >>
    /\ g_motors_enabled

\* C13, as stated: after a receiver thread has written false for a marker,
\* and until main has read the flag at line 121 or cleared it itself at
\* line 117, g_motors_enabled is false.
C13_FaultNeverOverwritten == faultUnseen => ~g_motors_enabled

\* C14, as stated: in every reachable state, g_motors_enabled is true only
\* if on each channel the last initMotors went through without a failed
\* call up to its toggleMotor(true) and no stopMotor or toggleMotor(false)
\* was issued to the channel since.
C14_EnabledImpliesChannelsOn ==
    g_motors_enabled => \A c \in Channels : chanOn[c]

ExpectedKillCalls ==
    << << 0, "stopMotor", 0 >>, << 0, "toggleMotor", 0 >>,
       << 1, "stopMotor", 0 >>, << 1, "toggleMotor", 0 >> >>

\* C15: when callAvailable returns with g_watchdog_tripped false, main
\* enters killMotors, whatever g_motors_enabled is; while killMotors runs
\* the only calls made are its own; main leaves it only when both channels
\* are done, with g_motors_enabled false, for the top of the loop; and at
\* the end of a timed-out iteration the calls made in it are exactly
\* killMotors' four (no setVelocity) and g_motors_enabled is false.
C15_TimedOutIterationKills ==
    /\ []( /\ pc = "kill"
                 => opLog = SubSeq(ExpectedKillCalls, 1, Len(opLog))
           /\ (pc = "loop" /\ timeouts >= 1)
                 => /\ opLog = ExpectedKillCalls
                    /\ ~VelocityIssued
                    /\ ~g_motors_enabled )
    /\ [][ /\ (pc = "wait" /\ pc' # pc /\ queue = << >>)
                => (pc' = "branch" /\ ~g_watchdog_tripped')
           /\ (pc = "branch" /\ pc' # pc /\ ~g_watchdog_tripped)
                => (pc' = "kill" /\ opLog' = << >>)
           /\ (pc = "kill" /\ pc' # pc)
                => /\ pc' = "loop"
                   /\ opLog = ExpectedKillCalls
                   /\ ~g_motors_enabled' ]_vars

\* C15's case: a timed-out iteration that began with g_motors_enabled
\* already false (the iteration before it timed out too) has run
\* killMotors on both channels, with channel 0's stopMotor failing.
C15_Witness ==
    /\ pc = "loop"
    /\ timeouts = 2
    /\ opLog = ExpectedKillCalls
    /\ nFailed >= 1
    /\ firstFailed = 1
    /\ ~g_motors_enabled

\* C16: whatever the left channel's setVelocity returns, main leaves
\* g_motors_enabled as it is and goes on to the right channel's call;
\* whatever that returns, main leaves the flag as it is and goes to the top
\* of the loop, and from there to the next wait unless the node was shut
\* down; setVelocity's result is false exactly when a call failed;
\* killMotors is entered only from the test of line 113 with
\* g_watchdog_tripped false, and initMotors in the loop only from the test
\* of line 121 with g_motors_enabled false.
C16_VelocityFailureChangesNothing ==
    /\ [](SentBoth => (success <=> nFailed = 0))
    /\ [][ /\ (pc = "setvel" /\ pc' # pc)
                => /\ pc' = "setvel_r"
                   /\ Len(opLog') = 1
                   /\ opLog'[1][1] = LEFT_MOTOR_CHANNEL
                   /\ opLog'[1][2] = "setVelocity"
                   /\ g_motors_enabled' = g_motors_enabled
           /\ (pc = "setvel_r" /\ pc' # pc)
                => /\ pc' = "loop"
                   /\ Len(opLog') = 2
                   /\ opLog'[2][1] = RIGHT_MOTOR_CHANNEL
                   /\ opLog'[2][2] = "setVelocity"
                   /\ g_motors_enabled' = g_motors_enabled
           /\ (pc = "loop" /\ pc' # pc /\ rosok) => pc' = "wait"
           /\ (pc' = "kill" /\ pc # pc')
                => (pc = "branch" /\ ~g_watchdog_tripped)
           /\ (pc' = "r_init" /\ pc # pc')
                => (pc = "chk" /\ ~g_motors_enabled) ]_vars

\* C16's case: the left channel's setVelocity failed, the right channel's
\* was made all the same and succeeded, and main is at the top of the loop
\* with g_motors_enabled still true.
C16_Witness ==
    /\ SentBoth
    /\ nFailed = 1
    /\ firstFailed = 1
    /\ ~success
    /\ g_motors_enabled
    /\ rosok

\* C17: killMotors issues stopMotor and then toggleMotor(false) on channel
\* 0 and then on channel 1, whether or not a fault was reported and on
\* whichever channel, goes on after a failed call until all four are made,
\* and returns success exactly when none of the four failed.
C17_KillMotorsAllStepsAndResult ==
    pc = "kill"
        => /\ Len(opLog) = Len(KillOps) * i + (step - 1)
           /\ opLog = SubSeq(ExpectedKillCalls, 1, Len(opLog))
           /\ success <=> (nFailed = 0)
           /\ i = NUMBER_OF_MOTORS => opLog = ExpectedKillCalls

\* C17's case: killMotors runs after a fault report, its first call
\* (channel 0's stopMotor) failed, and it has made all four calls and
\* returns failure.
C17_Witness ==
    /\ pc = "kill"
    /\ faultPending
    /\ i = NUMBER_OF_MOTORS
    /\ opLog = ExpectedKillCalls
    /\ nFailed = 1
    /\ firstFailed = 1
    /\ ~success

\* C18: when callAvailable runs the callbacks of the messages queued, the
\* velocity globals afterwards are those of the last message queued and the
\* queue is empty (the earlier messages are gone); no other step changes
\* the velocity globals; so for the rest of the iteration they are the
\* pair of the last message delivered, and the calls setVelocity makes are
\* computed from that pair.
C18_LatestWins ==
    /\ []( /\ batch # << >>
                 => /\ g_linear_velocity = batch[Len(batch)][1]
                    /\ g_angular_velocity = batch[Len(batch)][2]
           /\ VelocityIssued
                 => LET c == Clamp(abs_overload, batch[Len(batch)][1],
                                   batch[Len(batch)][2])
                    IN  /\ batch # << >>
                        /\ opLog[1] = Call(LEFT_MOTOR_CHANNEL, "setVelocity",
                                           left_velocity(c[1], c[2]))
                        /\ Len(opLog) = 2
                              => opLog[2] = Call(RIGHT_MOTOR_CHANNEL,
                                                 "setVelocity",
                                                 right_velocity(c[1], c[2])) )
    /\ [][ /\ (pc = "wait" /\ pc' # pc /\ queue # << >>)
                => /\ batch' = queue
                   /\ queue' = << >>
                   /\ g_watchdog_tripped'
           /\ ~(pc = "wait" /\ pc' # pc)
                => UNCHANGED << g_linear_velocity, g_angular_velocity >> ]_vars

\* C18's case: two different commands were queued for one callAvailable,
\* and setVelocity has been called on both channels in that iteration.
C18_Witness ==
    /\ SentBoth
    /\ Len(batch) = 2
    /\ batch[1] = << TOPSPEED * Unit + 1, Unit >>
    /\ batch[2] = << Unit, 0 >>
    /\ g_linear_velocity = Unit
    /\ g_angular_velocity = 0

\* q is an initial part of r
IsPrefix(q, r) == Len(q) <= Len(r) /\ SubSeq(r, 1, Len(q)) = q

\* C19: a message queued for main stays queued, in its place, through
\* every step other than callAvailable's return (the clear of
\* g_watchdog_tripped at the top of the loop included); and callAvailable
\* returns with g_watchdog_tripped true exactly when a message was queued,
\* however long ago, so main then takes the branch of line 119, not the
\* timeout branch.
C19_NoCommandLostToClear ==
    /\ [](pc = "branch" /\ ~g_watchdog_tripped => waited = WATCHDOG_TIMEOUT)
    /\ [][ /\ ~(pc = "wait" /\ pc' # pc) => IsPrefix(queue, queue')
           /\ (pc = "loop" /\ pc' = "wait")
                => (~g_watchdog_tripped' /\ queue' = queue)
           /\ (pc = "wait" /\ pc' # pc)
                => /\ pc' = "branch"
                   /\ g_watchdog_tripped' <=> (queue # << >>)
           /\ (pc = "branch" /\ pc' # pc /\ g_watchdog_tripped)
                => pc' = "chk" ]_vars

\* C19's case: a command was published while main was running killMotors
\* after a timeout; the next callAvailable returned at once with
\* g_watchdog_tripped true.
C19_Witness ==
    /\ pc = "branch"
    /\ timeouts >= 1
    /\ waited = 0
    /\ g_watchdog_tripped
    /\ queue = << >>
    /\ ~g_motors_enabled

====
